---- MODULE Spec2Model ----
(***************************************************************************)
(* A model of the blog application of src/main.py and src/forms.py: the    *)
(* three tables (user_table, post_table, comments), the identity each      *)
(* browser session carries, and one action per request handler.  Every     *)
(* handler leaves the response it produced (route, status, template or     *)
(* redirect target, flashed message) in the variable resp.  The server     *)
(* clock is an input of the handlers that read it.                         *)
(*                                                                         *)
(* Storage engine: the tables are the ones db.create_all() builds from the *)
(* declared columns (unique and NOT NULL constraints are enforced, integer *)
(* primary keys are handed out as max(id) + 1, VARCHAR lengths are not     *)
(* enforced).  A constraint violation at commit raises IntegrityError,     *)
(* which no handler catches: the request ends with status 500 and the      *)
(* transaction is rolled back.                                             *)
(***************************************************************************)
EXTENDS Integers, Sequences, FiniteSets, TLC

VARIABLES
    users,      \* user_table: rows of User (main.py 45-54)
    posts,      \* post_table: rows of BlogPost (main.py 58-70)
    comments,   \* comments: rows of Comment (main.py 74-84)
    sess,       \* per browser session, the user id flask_login keeps (0: none)
    resp,       \* the response of the last request served
    pend        \* per session, the registration form that passed the existence
                \* queries and is not committed yet

vars == <<users, posts, comments, sess, resp, pend>>

----------------------------------------------------------------------------
(* Bounds and input domains *)

MaxPostId == 2
MaxComments == 1

Sessions == {"s1", "s2"}

Emails == {"ann@x.io", "bob@x.io"}
Passwords == {"correcthorse", "batterystaple"}
Salts == {"salt-a"}
\* The days the server clock shows, as strftime("%B %d, %Y") prints them.
Days == <<"November 03, 2026">>

\* Rich text is a sequence of nodes: an element with its inner text, or bare text.
Script == [tag |-> "script", text |-> "alert(1)"]
Bold == [tag |-> "b", text |-> "Hi"]
Text(t) == [tag |-> "#text", text |-> t]

\* A GET request carries no form data.
BlankRegister == [email |-> "", password |-> "", name |-> ""]
BlankLogin == [email |-> "", password |-> ""]
BlankPost == [title |-> "", subtitle |-> "", img_url |-> "", body |-> <<>>]
BlankComment == [comment |-> <<>>]

RegisterInputs ==
    {[email |-> "ann@x.io", password |-> "correcthorse", name |-> "ann"],
     [email |-> "bob@x.io", password |-> "correcthorse", name |-> "bob"],
     [email |-> "bob@x.io", password |-> "correcthorse", name |-> "ann"],
     [email |-> "ann@x.io", password |-> "short", name |-> "ann"]}

LoginInputs == [email : Emails, password : Passwords]

PostInputs ==
    {[title |-> "T1", subtitle |-> "S1", img_url |-> "https://img.io/1.png",
      body |-> <<Text("Hello")>>],
     [title |-> "T2", subtitle |-> "S2", img_url |-> "https://img.io/2.png",
      body |-> <<Script, Text("Hello"), Bold>>],
     [title |-> "T2", subtitle |-> "S1", img_url |-> "not a url",
      body |-> <<Text("Hello")>>]}

CommentInputs == {[comment |-> <<Script, Text("Nice")>>]}

\* The requests a client can send to a form route.
Requests(inputs, blank) ==
    {<<"GET", blank>>} \cup {<<"POST", f>> : f \in inputs}

----------------------------------------------------------------------------
(* forms.py: validators *)

MinPasswordLen == 8

\* DataRequired: the field holds something (a string or rich text of length > 0).
DataRequired(data) == Len(data) > 0

URL(data) == data \in {"https://img.io/1.png", "https://img.io/2.png"}

Length(data) == Len(data) >= MinPasswordLen

\* validate_on_submit: the request is a POST and every validator passes.
RegisterForm(m, f) ==
    /\ m = "POST"
    /\ DataRequired(f.email)
    /\ DataRequired(f.password) /\ Length(f.password)
    /\ DataRequired(f.name)

LoginForm(m, f) ==
    /\ m = "POST"
    /\ DataRequired(f.email)
    /\ DataRequired(f.password)

PostForm(m, f) ==
    /\ m = "POST"
    /\ DataRequired(f.title)
    /\ DataRequired(f.subtitle)
    /\ DataRequired(f.img_url) /\ URL(f.img_url)
    /\ DataRequired(f.body)

CommentForm(m, f) ==
    /\ m = "POST"
    /\ DataRequired(f.comment)

----------------------------------------------------------------------------
(* Helpers the handlers call *)

\* werkzeug: the stored value is method, salt and the salted digest.
generate_password_hash(password, salt) ==
    [method |-> "pbkdf2:sha256", salt |-> salt, digest |-> <<"H", salt, password>>]

check_password_hash(pwhash, password) ==
    pwhash.digest = <<"H", pwhash.salt, password>>

\* nh3.clean: script elements go with their content, other nodes stay.
nh3_clean(html) == SelectSeq(html, LAMBDA n : n.tag # "script")

\* date.today().strftime("%B %d, %Y")
FormatDate(now) == Days[now]

\* datetime.now().strftime("%B %d, %Y, %I:%M%p")
FormatDateTime(now) == <<Days[now], "09:30AM">>

Max(S) == IF S = {} THEN 0 ELSE CHOOSE x \in S : \A y \in S : y <= x

\* Integer primary key: one more than the largest id in the table.
NextId(rows) == Max({r.id : r \in rows}) + 1

\* Model.query.filter_by(...).first(): the matching row, or None.
None == [id |-> 0]

FirstByEmail(email) ==
    IF \E u \in users : u.email = email
    THEN CHOOSE u \in users : u.email = email ELSE None

FirstByName(name) ==
    IF \E u \in users : u.name = name
    THEN CHOOSE u \in users : u.name = name ELSE None

GetPost(post_id) == CHOOSE p \in posts : p.id = post_id

load_user(user_id) == CHOOSE u \in users : u.id = user_id

\* flask_login: the session holds a user id or nothing.
Anonymous == 0

AnonymousUserMixin == [id |-> Anonymous]

\* current_user: the row load_user finds for the id kept in the session.
current_user(s) ==
    IF sess[s] = Anonymous THEN AnonymousUserMixin ELSE load_user(sess[s])

is_anonymous(s) == current_user(s) = AnonymousUserMixin

\* Variant: the authentication gate lets every session through.
is_authenticated_Mutant(s) == s \in Sessions

is_authenticated(s) == current_user(s) # AnonymousUserMixin

\* unique=True on user_table.email and user_table.name
UserUnique(table) ==
    \A u, v \in table : u.id # v.id => u.email # v.email /\ u.name # v.name

\* unique=True on post_table.title
TitleUnique(table) ==
    \A p, q \in table : p.id # q.id => p.title # q.title

\* Variant: the column declared Optional, so that NULL is accepted.
post_id_nullable_Mutant == TRUE

\* comments.post_id is declared Mapped[int]: the column is NOT NULL.
post_id_nullable == FALSE

\* What the client gets back: the status, the template rendered (200) or the
\* route redirected to (302), and the message flashed by the request.
Response(op, status, view, flash) ==
    [op |-> op, status |-> status, view |-> view, flash |-> flash]

----------------------------------------------------------------------------
Init ==
    /\ users = {}
    /\ posts = {}
    /\ comments = {}
    /\ sess = [s \in Sessions |-> Anonymous]
    /\ resp = Response("get_all_posts", 200, "index.html", "")
    /\ pend = [s \in Sessions |-> None]

----------------------------------------------------------------------------
(* /register *)

NewUser(f, salt) ==
    [id |-> NextId(users), email |-> f.email,
     password |-> generate_password_hash(f.password, salt), name |-> f.name]

\* Variant: only the email is looked up.
RegisterExists_Mutant(f) == FirstByEmail(f.email) # None

\* email_exist or username_exist
RegisterExists(f) ==
    FirstByEmail(f.email) # None \/ FirstByName(f.name) # None

RegisterRefused ==
    Response("register", 200, "register.html",
             "That email or username are already in use.")

\* db.session.add(new_user); db.session.commit(); login_user(new_user); flash; redirect.
\* A commit that breaks a unique constraint raises IntegrityError.
register_commit(s, m, f, salt) ==
    IF UserUnique(users \cup {NewUser(f, salt)})
    THEN /\ users' = users \cup {NewUser(f, salt)}
         /\ sess' = [sess EXCEPT ![s] = NewUser(f, salt).id]
         /\ resp' = Response("register", 302, "get_all_posts",
                             "Registered successfully.")
    ELSE /\ resp' = Response("register", 500, "IntegrityError", "")
         /\ UNCHANGED <<users, sess>>

\* The handler run from start to end with no other request in between.
register(s, m, f) ==
    /\ \/ /\ ~RegisterForm(m, f)
          /\ resp' = Response("register", 200, "register.html", "")
          /\ UNCHANGED <<users, sess>>
       \/ /\ RegisterForm(m, f)
          /\ RegisterExists(f)
          /\ resp' = RegisterRefused
          /\ UNCHANGED <<users, sess>>
       \/ /\ RegisterForm(m, f)
          /\ ~RegisterExists(f)
          /\ \E salt \in Salts : register_commit(s, m, f, salt)
    /\ UNCHANGED <<posts, comments, pend>>

Register ==
    \E s \in Sessions, r \in Requests(RegisterInputs, BlankRegister) :
        register(s, r[1], r[2])

\* The same handler under concurrent requests: the two existence queries run,
\* other requests are served, then the insert is committed.
register_check(s, m, f) ==
    /\ pend[s] = None
    /\ RegisterForm(m, f)
    /\ \/ /\ RegisterExists(f)
          /\ resp' = RegisterRefused
          /\ UNCHANGED pend
       \/ /\ ~RegisterExists(f)
          /\ pend' = [pend EXCEPT ![s] = f]
          /\ UNCHANGED resp
    /\ UNCHANGED <<users, posts, comments, sess>>

RegisterCheck ==
    \E s \in Sessions, f \in RegisterInputs : register_check(s, "POST", f)

RegisterCommit ==
    \E s \in Sessions, salt \in Salts :
        /\ pend[s] # None
        /\ register_commit(s, "POST", pend[s], salt)
        /\ pend' = [pend EXCEPT ![s] = None]
        /\ UNCHANGED <<posts, comments>>

----------------------------------------------------------------------------
(* /login and /logout *)

LoginBadPasswordFlash == "Incorrect password or email, please try again."

\* Variant: the unknown-email branch words its message differently.
LoginNoUserFlash_Mutant == "No account uses that email."

LoginNoUserFlash == "Incorrect password or email, please try again."

login(s, m, f) ==
    /\ \/ /\ ~LoginForm(m, f)
          /\ resp' = Response("login", 200, "login.html", "")
          /\ UNCHANGED sess
       \/ /\ LoginForm(m, f)
          /\ FirstByEmail(f.email) # None
          /\ check_password_hash(FirstByEmail(f.email).password, f.password)
          /\ sess' = [sess EXCEPT ![s] = FirstByEmail(f.email).id]
          /\ resp' = Response("login", 302, "get_all_posts",
                              "Logged in successfully.")
       \/ /\ LoginForm(m, f)
          /\ FirstByEmail(f.email) # None
          /\ ~check_password_hash(FirstByEmail(f.email).password, f.password)
          /\ resp' = Response("login", 200, "login.html",
                              LoginBadPasswordFlash)
          /\ UNCHANGED sess
       \/ /\ LoginForm(m, f)
          /\ FirstByEmail(f.email) = None
          /\ resp' = Response("login", 200, "login.html",
                              LoginNoUserFlash)
          /\ UNCHANGED sess
    /\ UNCHANGED <<users, posts, comments, pend>>

Login ==
    \E s \in Sessions, r \in Requests(LoginInputs, BlankLogin) :
        login(s, r[1], r[2])

logout(s) ==
    /\ \/ /\ is_anonymous(s)
          /\ resp' = Response("logout", 302, "get_all_posts",
                              "You're not currently logged in to an account.")
          /\ UNCHANGED sess
       \/ /\ ~is_anonymous(s)
          /\ sess' = [sess EXCEPT ![s] = Anonymous]
          /\ resp' = Response("logout", 302, "get_all_posts",
                              "Logged out successfully.")
    /\ UNCHANGED <<users, posts, comments, pend>>

Logout == \E s \in Sessions : logout(s)

----------------------------------------------------------------------------
(* /<post_id>: post detail and commenting *)

PostIds == 1..MaxPostId

\* date.today() in the post handler; datetime.now() in the comment handler.
Clock == 1..Len(Days)

CommentClock == Clock

\* db.get_or_404
NotFound(op, post_id) ==
    /\ ~\E p \in posts : p.id = post_id
    /\ resp' = Response(op, 404, "Not Found", "")
    /\ UNCHANGED <<users, posts, comments, sess, pend>>

\* Variant: the comment is attributed to the author of the post.
NewComment_Mutant(s, post_id, f, now) ==
    [id |-> NextId(comments), date |-> FormatDateTime(now),
     text |-> nh3_clean(f.comment), author_id |-> GetPost(post_id).author_id,
     post_id |-> GetPost(post_id).id]

NewComment(s, post_id, f, now) ==
    [id |-> NextId(comments), date |-> FormatDateTime(now),
     text |-> nh3_clean(f.comment), author_id |-> current_user(s).id,
     post_id |-> GetPost(post_id).id]

show_post(s, m, post_id, f, now) ==
    \/ NotFound("show_post", post_id)
    \/ /\ \E p \in posts : p.id = post_id
       /\ \/ /\ CommentForm(m, f)
             /\ ~is_authenticated(s)
             /\ resp' = Response("show_post", 302, "login",
                                 "You need to login or register to comment.")
             /\ UNCHANGED comments
          \/ /\ CommentForm(m, f)
             /\ is_authenticated(s)
             /\ Cardinality(comments) < MaxComments
             /\ comments' = comments \cup {NewComment(s, post_id, f, now)}
             /\ resp' = Response("show_post", 302, "show_post", "")
          \/ /\ ~CommentForm(m, f)
             /\ resp' = Response("show_post", 200, "post.html", "")
             /\ UNCHANGED comments
       /\ UNCHANGED <<users, posts, sess, pend>>

ShowPost ==
    \E s \in Sessions, post_id \in PostIds, now \in CommentClock,
       r \in Requests(CommentInputs, BlankComment) :
        show_post(s, r[1], post_id, r[2], now)

----------------------------------------------------------------------------
(* /new-post *)

NewPost(s, f, now) ==
    [id |-> NextId(posts), title |-> f.title, subtitle |-> f.subtitle,
     body |-> nh3_clean(f.body), img_url |-> f.img_url,
     author_id |-> current_user(s).id, date |-> FormatDate(now)]

add_new_post(s, m, f, now) ==
    /\ \/ /\ is_authenticated(s)
          /\ PostForm(m, f)
          /\ TitleUnique(posts \cup {NewPost(s, f, now)})
          /\ NextId(posts) <= MaxPostId
          /\ posts' = posts \cup {NewPost(s, f, now)}
          /\ resp' = Response("add_new_post", 302, "get_all_posts", "")
       \/ /\ is_authenticated(s)
          /\ PostForm(m, f)
          /\ ~TitleUnique(posts \cup {NewPost(s, f, now)})
          /\ resp' = Response("add_new_post", 500, "IntegrityError", "")
          /\ UNCHANGED posts
       \/ /\ is_authenticated(s)
          /\ ~PostForm(m, f)
          /\ resp' = Response("add_new_post", 200, "make-post.html", "")
          /\ UNCHANGED posts
       \/ /\ ~is_authenticated(s)
          /\ resp' = Response("add_new_post", 302, "get_all_posts",
                              "You must be logged in to submit a new post.")
          /\ UNCHANGED posts
    /\ UNCHANGED <<users, comments, sess, pend>>

AddNewPost ==
    \E s \in Sessions, now \in Clock, r \in Requests(PostInputs, BlankPost) :
        add_new_post(s, r[1], r[2], now)

----------------------------------------------------------------------------
(* /edit/<post_id> and /delete/<post_id> *)

\* current_user == post.author
\* Variant: any logged-in user passes the ownership test.
IsAuthor_Mutant(s, post) == current_user(s) # AnonymousUserMixin

IsAuthor(s, post) == current_user(s) = load_user(post.author_id)

DeniedFlash == "You do not have permissions to complete that action."

LoginNeededFlash == "You must be logged in to complete actions."

\* Variant: the edit stamps the row with the day of the edit.
Edited_Mutant(post, f) ==
    [post EXCEPT !.title = f.title, !.subtitle = f.subtitle, !.img_url = f.img_url,
                 !.body = nh3_clean(f.body), !.date = "November 05, 2026"]

\* The four assignments of the edit handler.
Edited(post, f) ==
    [post EXCEPT !.title = f.title, !.subtitle = f.subtitle,
                 !.img_url = f.img_url, !.body = nh3_clean(f.body)]

edit_post(s, m, post_id, f) ==
    \/ NotFound("edit_post", post_id)
    \/ /\ \E p \in posts : p.id = post_id
       /\ LET post_to_edit == GetPost(post_id)
              after == (posts \ {post_to_edit}) \cup {Edited(post_to_edit, f)}
          IN \/ /\ ~is_anonymous(s)
                /\ IsAuthor(s, post_to_edit)
                /\ PostForm(m, f)
                /\ TitleUnique(after)
                /\ posts' = after
                /\ resp' = Response("edit_post", 302, "show_post", "")
             \/ /\ ~is_anonymous(s)
                /\ IsAuthor(s, post_to_edit)
                /\ PostForm(m, f)
                /\ ~TitleUnique(after)
                /\ resp' = Response("edit_post", 500,
                                    "IntegrityError", "")
                /\ UNCHANGED posts
             \/ /\ ~is_anonymous(s)
                /\ IsAuthor(s, post_to_edit)
                /\ ~PostForm(m, f)
                /\ resp' = Response("edit_post", 200,
                                    "make-post.html", "")
                /\ UNCHANGED posts
             \/ /\ ~is_anonymous(s)
                /\ ~IsAuthor(s, post_to_edit)
                /\ resp' = Response("edit_post", 302,
                                    "get_all_posts", DeniedFlash)
                /\ UNCHANGED posts
             \/ /\ is_anonymous(s)
                /\ resp' = Response("edit_post", 302,
                                    "get_all_posts", LoginNeededFlash)
                /\ UNCHANGED posts
       /\ UNCHANGED <<users, comments, sess, pend>>

EditPost ==
    \E s \in Sessions, post_id \in PostIds, r \in Requests(PostInputs, BlankPost) :
        edit_post(s, r[1], post_id, r[2])

\* The rows of post_comments: the ORM sets their post_id to NULL when the parent
\* is deleted (the relationship declares no delete cascade).
Children(post) == {c \in comments : c.post_id = post.id}

Null == 0

delete_post(s, post_id) ==
    \/ NotFound("delete_post", post_id)
    \/ /\ \E p \in posts : p.id = post_id
       /\ LET dead_post == GetPost(post_id)
          IN \/ /\ ~is_anonymous(s)
                /\ IsAuthor(s, dead_post)
                /\ Children(dead_post) = {} \/ post_id_nullable
                /\ comments' = (comments \ Children(dead_post)) \cup
                                 {[c EXCEPT !.post_id = Null] : c \in Children(dead_post)}
                /\ posts' = posts \ {dead_post}
                /\ resp' = Response("delete_post", 302,
                                    "get_all_posts", "")
             \/ /\ ~is_anonymous(s)
                /\ IsAuthor(s, dead_post)
                /\ Children(dead_post) # {} /\ ~post_id_nullable
                /\ resp' = Response("delete_post", 500,
                                    "IntegrityError", "")
                /\ UNCHANGED <<posts, comments>>
             \/ /\ ~is_anonymous(s)
                /\ ~IsAuthor(s, dead_post)
                /\ resp' = Response("delete_post", 302,
                                    "get_all_posts", DeniedFlash)
                /\ UNCHANGED <<posts, comments>>
             \/ /\ is_anonymous(s)
                /\ resp' = Response("delete_post", 302,
                                    "get_all_posts", LoginNeededFlash)
                /\ UNCHANGED <<posts, comments>>
       /\ UNCHANGED <<users, sess, pend>>

DeletePost == \E s \in Sessions, post_id \in PostIds : delete_post(s, post_id)

----------------------------------------------------------------------------
(* Requests handled one at a time *)

Next ==
    \/ Register
    \/ Login
    \/ Logout
    \/ ShowPost
    \/ AddNewPost
    \/ EditPost
    \/ DeletePost

Spec == Init /\ [][Next]_vars

(* Registration requests that overlap *)

NextRace ==
    \/ RegisterCheck
    \/ RegisterCommit
    \/ Login
    \/ Logout

SpecRace == Init /\ [][NextRace]_vars

----------------------------------------------------------------------------
(* Properties *)

Ids(rows) == {r.id : r \in rows}

PostExists(post_id) == \E p \in posts : p.id = post_id

PostRequests == Requests(PostInputs, BlankPost)

\* C1: with requests handled one at a time, a valid POST to /register whose email
\* or name is that of an existing user creates no row, leaves every session's
\* identity as it was and re-renders the registration form with the
\* "already in use" notice.
C1_DuplicateRegistrationRefused ==
    [][resp'.op = "register" =>
        \A s \in Sessions, f \in RegisterInputs :
            ( /\ RegisterForm("POST", f)
              /\ \E u \in users : u.email = f.email \/ u.name = f.name
              /\ register(s, "POST", f) )
            => /\ users' = users
               /\ sess' = sess
               /\ resp'.status = 200
               /\ resp'.view = "register.html"
               /\ resp'.flash = "That email or username are already in use."]_vars

\* A registration was refused while the table holds the user it collided with.
C1_Witness ==
    /\ resp.op = "register"
    /\ resp.flash = "That email or username are already in use."
    /\ users # {}

\* C2: a request to edit or delete an existing post by an authenticated identity
\* that is not its author gets the denial notice and a redirect to the listing
\* and changes no table; a post row changes or disappears only in a step of an
\* edit or delete request whose session identity is the post's author.
C2_OnlyAuthorMutates ==
    [][/\ resp'.op \in {"edit_post", "delete_post"} =>
            \A s \in Sessions, post_id \in PostIds :
                ( /\ PostExists(post_id)
                  /\ sess[s] # Anonymous
                  /\ sess[s] # GetPost(post_id).author_id
                  /\ \/ \E r \in PostRequests : edit_post(s, r[1], post_id, r[2])
                     \/ delete_post(s, post_id) )
                => /\ resp'.status = 302
                   /\ resp'.view = "get_all_posts"
                   /\ resp'.flash = "You do not have permissions to complete that action."
                   /\ posts' = posts
                   /\ comments' = comments
       /\ \A p \in posts :
            p \notin posts' =>
                \E s \in Sessions :
                    /\ sess[s] = p.author_id
                    /\ \/ \E r \in PostRequests : edit_post(s, r[1], p.id, r[2])
                       \/ delete_post(s, p.id)]_vars

\* A second user was denied while the post of the first one exists.
C2_Witness ==
    /\ resp.op \in {"edit_post", "delete_post"}
    /\ resp.flash = "You do not have permissions to complete that action."
    /\ \E s \in Sessions, p \in posts : sess[s] \notin {Anonymous, p.author_id}

\* C3: a valid comment submitted by an unauthenticated session is redirected to
\* the login page and adds no row; every row added to the comment table carries
\* the identity of a session that submitted a comment in that step; and a row's
\* author never changes afterwards.
C3_CommentNeedsIdentity ==
    [][/\ resp'.op = "show_post" =>
            \A s \in Sessions, post_id \in PostIds, f \in CommentInputs,
               now \in CommentClock :
                ( /\ PostExists(post_id)
                  /\ sess[s] = Anonymous
                  /\ CommentForm("POST", f)
                  /\ show_post(s, "POST", post_id, f, now) )
                => /\ resp'.status = 302
                   /\ resp'.view = "login"
                   /\ comments' = comments
       /\ \A c \in comments' :
            c.id \notin Ids(comments) =>
                \E s \in Sessions :
                    /\ sess[s] # Anonymous
                    /\ c.author_id = sess[s]
                    /\ \E f \in CommentInputs, now \in CommentClock :
                         show_post(s, "POST", c.post_id, f, now)
       /\ \A c \in comments :
            \E d \in comments' : d.id = c.id /\ d.author_id = c.author_id]_vars

\* An anonymous comment was turned away, and a comment of a user is stored.
C3_Witness ==
    /\ resp.op = "show_post"
    /\ resp.view = "login"
    /\ \A s \in Sessions : sess[s] = Anonymous
    /\ comments # {}

\* C4: a valid login whose email belongs to a user but whose password does not
\* match, and a valid login whose email belongs to no user, get the same
\* response (same status, same form, same message) and leave every session's
\* identity unchanged.
C4_LoginFailuresAlike ==
    [][resp'.op = "login" =>
        \A s \in Sessions, f \in LoginInputs :
            ( /\ LoginForm("POST", f)
              /\ login(s, "POST", f)
              /\ \/ ~\E u \in users : u.email = f.email
                 \/ \E u \in users :
                      /\ u.email = f.email
                      /\ u.password # generate_password_hash(f.password, u.password.salt) )
            => /\ resp' = [op |-> "login", status |-> 200, view |-> "login.html",
                           flash |-> "Incorrect password or email, please try again."]
               /\ sess' = sess]_vars

\* A login failed while one email of the input domain is registered and the
\* other is not: both cases of the claim are possible requests here.
C4_Witness ==
    /\ resp.op = "login"
    /\ resp.flash = "Incorrect password or email, please try again."
    /\ \E e1, e2 \in Emails :
         /\ \E u \in users : u.email = e1
         /\ ~\E u \in users : u.email = e2

\* C5: a successful edit sets title, subtitle and image URL to the submitted
\* values and the body to the submitted body without its script elements, and
\* leaves id, author and date as they were; in every step a post that stays in
\* the table keeps its author and date.
C5_EditKeepsAuthorAndDate ==
    [][/\ (resp'.op = "edit_post" /\ resp'.view = "show_post") =>
            \A s \in Sessions, post_id \in PostIds, f \in PostInputs :
                ( /\ PostExists(post_id)
                  /\ PostForm("POST", f)
                  /\ edit_post(s, "POST", post_id, f) )
                => \E q \in posts' :
                     /\ q.id = post_id
                     /\ q.title = f.title
                     /\ q.subtitle = f.subtitle
                     /\ q.img_url = f.img_url
                     /\ q.body = SelectSeq(f.body, LAMBDA n : n.tag # "script")
                     /\ q.author_id = GetPost(post_id).author_id
                     /\ q.date = GetPost(post_id).date
                     /\ posts' \ {q} = posts \ {GetPost(post_id)}
       /\ \A p \in posts, q \in posts' :
            p.id = q.id => q.author_id = p.author_id /\ q.date = p.date]_vars

\* An edit went through while a second user is registered and a post of the
\* first one carries the second title.
C5_Witness ==
    /\ resp.op = "edit_post"
    /\ resp.view = "show_post"
    /\ Cardinality(users) = 2
    /\ \E p \in posts : p.author_id = 1 /\ p.title = "T2"

\* C6: every comment references a post and a user that exist, and every post
\* references a user that exists.
C6_ReferencesValid ==
    /\ \A c \in comments :
         /\ c.post_id \in Ids(posts)
         /\ c.author_id \in Ids(users)
    /\ \A p \in posts : p.author_id \in Ids(users)

\* The author asked to delete a post that has comments.
C6_Witness ==
    /\ resp.op = "delete_post"
    /\ resp.status = 500
    /\ \E c \in comments, s \in Sessions :
         /\ PostExists(c.post_id)
         /\ sess[s] = GetPost(c.post_id).author_id

\* C7: a valid /new-post whose title is that of an existing post, and a valid
\* edit by the author whose title is that of another post, end with a flash
\* message and not with a server error, and leave the post table unchanged.
C7_TitleConflictIsFlashed ==
    [][resp'.op \in {"add_new_post", "edit_post"} =>
        /\ \A s \in Sessions, f \in PostInputs, now \in Clock :
             ( /\ sess[s] # Anonymous
               /\ PostForm("POST", f)
               /\ \E p \in posts : p.title = f.title
               /\ add_new_post(s, "POST", f, now) )
             => resp'.status # 500 /\ resp'.flash # "" /\ posts' = posts
        /\ \A s \in Sessions, f \in PostInputs, post_id \in PostIds :
             ( /\ PostExists(post_id)
               /\ sess[s] = GetPost(post_id).author_id
               /\ PostForm("POST", f)
               /\ \E p \in posts : p.title = f.title /\ p.id # post_id
               /\ edit_post(s, "POST", post_id, f) )
             => resp'.status # 500 /\ resp'.flash # "" /\ posts' = posts]_vars

\* C8: when registrations with the same email or name overlap, at most one row
\* with that email or name exists, and the request that loses at commit ends
\* with the "already in use" form, not with a server error.
C8_RaceLoserIsRefused ==
    /\ [](UserUnique(users))
    /\ [][\A s \in Sessions :
            (pend[s] # None /\ pend'[s] = None /\ users' = users)
            => /\ resp'.status = 200
               /\ resp'.view = "register.html"
               /\ resp'.flash = "That email or username are already in use."
               /\ sess' = sess]_vars

\* C9: a successful registration leaves the session authenticated as the new
\* user; a /new-post request of that session right after it is accepted (the
\* form is rendered, or the post is created with the new user as author); and a
\* session's identity changes only in a logout, login or registration request of
\* that session.
C9_RegisteredMeansLoggedIn ==
    [][/\ \A s \in Sessions, f \in RegisterInputs :
            (register(s, "POST", f) /\ resp'.op = "register" /\ resp'.status = 302)
            => /\ sess'[s] \notin Ids(users)
               /\ \E u \in users' : u.id = sess'[s] /\ u.email = f.email
       /\ \A s \in Sessions, r \in PostRequests, now \in Clock :
            ( /\ resp.op = "register" /\ resp.status = 302
              /\ sess[s] = Max(Ids(users))
              /\ add_new_post(s, r[1], r[2], now) )
            => \/ resp'.status = 200 /\ resp'.view = "make-post.html"
               \/ /\ resp'.status = 302
                  /\ \E p \in posts' : p.id \notin Ids(posts) /\ p.author_id = sess[s]
       /\ \A s \in Sessions :
            sess'[s] # sess[s] =>
                \/ logout(s)
                \/ \E r \in Requests(LoginInputs, BlankLogin) : login(s, r[1], r[2])
                \/ \E f \in RegisterInputs : register(s, "POST", f)]_vars

\* C10: a request to /new-post, or to edit or delete an existing post, by an
\* unauthenticated session gets a notice and a redirect to the listing and
\* leaves the post table unchanged; a logout leaves the session unauthenticated;
\* and every row added to the post table carries the identity of a session that
\* submitted a post in that step.
C10_AnonymousCannotWrite ==
    [][/\ resp'.op \in {"add_new_post", "edit_post", "delete_post"} =>
            \A s \in Sessions :
                sess[s] = Anonymous =>
                    /\ \A r \in PostRequests, now \in Clock :
                         add_new_post(s, r[1], r[2], now)
                         => /\ resp'.status = 302
                            /\ resp'.view = "get_all_posts"
                            /\ resp'.flash # ""
                            /\ posts' = posts
                    /\ \A post_id \in PostIds :
                         ( /\ PostExists(post_id)
                           /\ \/ \E r \in PostRequests :
                                   edit_post(s, r[1], post_id, r[2])
                              \/ delete_post(s, post_id) )
                         => /\ resp'.status = 302
                            /\ resp'.view = "get_all_posts"
                            /\ resp'.flash # ""
                            /\ posts' = posts
       /\ \A s \in Sessions : logout(s) => sess'[s] = Anonymous
       /\ \A p \in posts' :
            p.id \notin Ids(posts) =>
                \E s \in Sessions :
                    /\ sess[s] # Anonymous
                    /\ p.author_id = sess[s]
                    /\ \E f \in PostInputs, now \in Clock :
                         add_new_post(s, "POST", f, now)]_vars

\* A session that logged out asked for a post to be edited or deleted and was
\* sent back to the listing, the post still in place.
C10_Witness ==
    /\ resp.op \in {"edit_post", "delete_post"}
    /\ resp.flash = "You must be logged in to complete actions."
    /\ posts # {}
    /\ \A s \in Sessions : sess[s] = Anonymous

====
